---- MODULE Spec2Model ----
(***************************************************************************)
(* Threat Hunter: offset-tracked log ingestion into a vector store, the    *)
(* rate-limited multi-credential completion client, and the issue          *)
(* deduplication engine, modelled from src/Threat_Hunter.py.               *)
(*                                                                         *)
(* Abstractions.  A line of the log source is one unit of offset; a line   *)
(* is either Malformed or a well-formed record, identified with its        *)
(* SHA-256 digest (a number in Digests).  An embedding is tagged with the  *)
(* digest of the text it was computed from.  A handle (faiss id) is drawn  *)
(* from the small set Handles instead of [0, 2^63).                        *)
(***************************************************************************)
EXTENDS Integers, Sequences, FiniteSets, TLC

\* ---------------------------------------------------------------- bounds
MaxDigest == 2          \* distinct well-formed records
MaxFileLen == 3         \* lines the log source can hold
MaxHandle == 2          \* handles the random draw can return
log_batch_size == 2     \* settings['log_batch_size'] (a setting; default 100000)
initial_scan_count == 1 \* settings['initial_scan_count'] (a setting; default 200)
MaxCrashes == 1         \* crashes of the process in one behaviour
chunk_size == 1         \* embedding chunk; 64 in the source, scaled so that a
                        \* batch of the model spans several chunks

Malformed == 0
Digests == 1..MaxDigest
Lines == {Malformed} \cup Digests
Handles == 1..MaxHandle
NoPos == -1             \* the position file does not exist
\* a file on disk: its content, or the remains of a write cut short by a crash
File(content) == [valid |-> TRUE, data |-> content]
Partial == [valid |-> FALSE, data |-> <<>>]
Procs == {"worker", "manual"}
MaxKeys == 3            \* GEMINI_API_KEY, GEMINI_API_KEY_2, GEMINI_API_KEY_3
max_retries == 15
NumCalls == 2           \* invocations of call_gemini_api the model tracks
Calls == 1..NumCalls
KeyIdx == 0..(MaxKeys - 1)
NoKey == -1
Outcomes == {"ok", "malformed", "429", "timeout", "5xx"}
MaxTitle == 1           \* distinct normalised five-word title prefixes
MaxVariant == 2         \* titles that share one normalised prefix
MaxSummary == 2         \* distinct normalised ten-word summary prefixes
MaxBatch == 2           \* candidates in one completion answer
MaxIssueId == 4         \* issue ids generated and ignored in a run
MaxSetting == 2         \* values given to update_settings
max_issues == 2         \* settings['max_issues'] (a setting; default 1000)
\* A title is <<p, v>>: p stands for its first five words in lower case, v
\* tells apart the titles with that prefix (other case, other later words).
Titles == (1..MaxTitle) \X (1..MaxVariant)
Severities == {"High", "high"}
Candidates == [severity : Severities, title : Titles, summary : 1..MaxSummary]
RECURSIVE SeqsUpTo(_, _)
SeqsUpTo(S, n) ==
    IF n = 0 THEN {<<>>}
    ELSE LET shorter == SeqsUpTo(S, n - 1)
         IN shorter \cup {Append(q, x) : q \in {r \in shorter : Len(r) = n - 1}, x \in S}
EmptyMeta == [d \in {} |-> 0]
MaxRequests == 25
TokenCeiling == 200000
\* token totals of a prompt: small, exactly the ceiling, above the ceiling
Totals == {1, TokenCeiling, TokenCeiling + 1}
MaxInterval == 1
BucketCapacity == 2
MaxClock == 5
NumCallers == 2
Callers == 1..NumCallers
\* the clock counts ticks of 60 / capacity seconds, so that the refill rate
\* capacity / 60 per second is one token per tick and a minute is capacity ticks
refill_rate == 1
Minute == BucketCapacity \div refill_rate
\* amounts asked of a bucket: one token, the capacity, more than the capacity
Amounts == {1, BucketCapacity, BucketCapacity + 1}
Int64Limit == 2          \* 2^63 scaled: ids at or above it do not fit np.int64
MaxSends == 3            \* requests per invocation while invocations overlap
MaxK == 2                \* the k a search asks for
MaxCycles == 3
\* values the processing_interval setting can be given (Optional[int])
Intervals == (0 - 1)..MaxInterval

VARIABLES
    logFile,            \* LOG_FILE: the lines of the log source
    posFile,            \* LOG_POSITION_FILE: NoPos or the persisted offset
    vector_db,          \* in-memory index: sequence of [id, emb]
    metadata_db,        \* in-memory metadata: digest -> faiss_id
    diskIndex,          \* VECTOR_DB_FILE
    diskMeta,           \* METADATA_DB_FILE
    app_status,         \* status string set by set_app_status
    pc,                 \* per execution: position in the cycle
    logs_to_process,    \* per execution: records read in this cycle
    current_position,   \* per execution: offset after the read
    rotation_detected,  \* per execution: the read reset last_position to 0
    unique_logs,        \* per execution: digests that passed the dedup check
    faiss_ids,          \* per execution: handles drawn for unique_logs
    embeddings,         \* per execution: vstack of the embedded chunks
    crashes,            \* number of crashes so far
    vector_lock,        \* vector_lock: "free" or "held"
    \* --- completion client (call_gemini_api)
    num_keys,               \* len(GEMINI_API_KEYS)
    current_api_key_index,  \* index of the active credential
    consecutive_failures,   \* per credential: the failure counter
    call_pc,                \* per invocation: position in call_gemini_api
    current_key,            \* per invocation: credential of the last request
    retry_count,            \* per invocation
    last_outcome,           \* per invocation: class of the last response
    since_ok,               \* history: per credential, 429 responses since its
                            \* last success or rotation
    run_key,                \* history: credential of the most recent request
    run429,                 \* history: 429 responses in a row on run_key
    single429,              \* history, per invocation: credential whose first
                            \* 429 (since success/rotation) was the last response
    total_expected,         \* per invocation: input + expected output tokens
    requests,               \* per invocation: HTTP requests posted so far
    bucket_keys,            \* credentials that have entries in rpm_buckets and
                            \* tpm_buckets (created and consumed from)
    \* --- issue engine (analyze_context_and_identify_issues, ignore_issue)
    issues,                 \* dashboard_data["issues"], newest first
    ignored_issue_ids,      \* the ignore set
    rpc,                    \* the worker's position in the analysis stage
    identified_issues,      \* candidates not yet examined
    existing_signatures,    \* local of the reconciliation
    new_issues,             \* local of the reconciliation
    existing_issue_ids,     \* local of the reconciliation
    ignored_signatures,     \* history: signatures of the issues an ignore removed
    last_batch              \* history: the candidates of the reconciliation

ingestVars == <<logFile, posFile, vector_db, metadata_db, diskIndex, diskMeta,
                app_status, pc, logs_to_process, current_position,
                rotation_detected, unique_logs, faiss_ids, embeddings, crashes>>

geminiVars == <<num_keys, current_api_key_index, consecutive_failures, call_pc,
                current_key, retry_count, last_outcome, since_ok, run_key,
                run429, single429, total_expected, requests, bucket_keys>>

issueVars == <<issues, ignored_issue_ids, rpc, identified_issues,
               existing_signatures, new_issues, existing_issue_ids,
               ignored_signatures, last_batch>>

VARIABLES
    \* --- cycle orchestrators (background_worker, main.py periodic)
    w_pc,                   \* background_worker: position in the loop
    w_status,               \* status string the worker recorded last
    processing_interval,    \* settings['processing_interval']
    cycle_count,            \* background_worker: cycle_count
    w_call,                 \* how the completion call of the cycle's analysis ended
    periodic_pc             \* main.py periodic task: position in the loop

workerVars == <<w_pc, w_status, processing_interval, cycle_count, w_call,
               periodic_pc>>

\* the variables of the components added after the ingest path, the
\* completion client and the issue engine
VARIABLES
    \* --- one TokenBucket and the coroutines that use it
    clock,              \* time.time(), in ticks
    bk_tokens,          \* self.tokens
    bk_last_refill,     \* self.last_refill
    bk_lock,            \* self.lock: 0 when free, else the caller holding it
    b_pc,               \* per caller: position in consume / wait_for_tokens
    b_n,                \* per caller: the amount asked
    b_wait,             \* per caller: TRUE inside wait_for_tokens
    b_now,              \* per caller: local now of consume
    b_seen,             \* history, per caller: self.tokens at the comparison
    b_result,           \* per caller: what the last consume returned
    last_consumed       \* history: clock reading of the last successful consume

bucketVars == <<clock, bk_tokens, bk_last_refill, bk_lock, b_pc, b_n, b_wait,
                b_now, b_seen, b_result, last_consumed>>

VARIABLES
    \* --- the packaged reader (WazuhAPI) and its store (VectorDB)
    wz_pos,             \* content of log_file + ".pos"; 0 while it is missing
    wz_logs,            \* what the last read_new_logs returned
    core_metadata,      \* VectorDB.metadata: the document ids it holds
    core_index,         \* VectorDB.index: the ids added, in order
    deployed,           \* which program runs: the script or the package
    core_error          \* what the last ThreatHunterCore.process_logs raised

wazuhVars == <<wz_pos, wz_logs, core_metadata, core_index, deployed,
              core_error>>

VARIABLES
    \* --- the rate-limit buckets kept per credential
    quota_buckets,      \* Threat_Hunter.py: rpm_buckets / tpm_buckets
    core_buckets,       \* threat_hunter: Gemini.rpm_buckets / tpm_buckets
    consulted           \* the buckets the last completion call waited on

quotaVars == <<quota_buckets, core_buckets, consulted>>

VARIABLE
    last_search         \* the last search: what it found and what it touched

VARIABLES
    \* --- the Gemini client of the package
    gen_current,        \* Gemini.current
    gen_failures,       \* Gemini.failures, per credential
    gen_last            \* how the last generate call ended

generateVars == <<gen_current, gen_failures, gen_last>>

VARIABLES
    \* --- the issue state of ThreatHunterCore
    core_issues,        \* self.issues, oldest first
    core_ignored,       \* self.ignored
    core_max_issues     \* self.settings["max_issues"]

analyzeVars == <<core_issues, core_ignored, core_max_issues>>

moreVars == <<quotaVars, last_search, generateVars, analyzeVars>>

otherVars == <<workerVars, bucketVars, wazuhVars, moreVars>>

vars == <<ingestVars, vector_lock, geminiVars, issueVars, otherVars>>

\* ---------------------------------------------------------------- helpers
Min(a, b) == IF a < b THEN a ELSE b
Max(a, b) == IF a > b THEN a ELSE b
Range(s) == {s[i] : i \in 1..Len(s)}
InSeq(s, x) == \E i \in 1..Len(s) : s[i] = x

\* ntotal of an index
ntotal(index) == Len(index)
\* handles held by the index / recorded in the metadata map
IndexHandles(index) == {index[i].id : i \in 1..Len(index)}
MetaHandles(meta) == {meta[d] : d \in DOMAIN meta}
\* number of index entries whose vector belongs to digest d
EntriesOf(index, d) == Cardinality({i \in 1..Len(index) : index[i].emb = d})

get_log_position == IF posFile = NoPos THEN 0 ELSE posFile

\* the rotation test of process_logs: the offset the read starts from
StartPositionZero(stored, file_size) == 0
StartPosition(stored, file_size) == IF stored > file_size THEN 0 ELSE stored

\* json.loads per line: the well-formed lines of a sequence, in order
RECURSIVE ParseLines(_)
ParseLines(lines) ==
    IF lines = <<>> THEN <<>>
    ELSE IF Head(lines) = Malformed THEN ParseLines(Tail(lines))
         ELSE <<Head(lines)>> \o ParseLines(Tail(lines))

\* lines[-n:] of Python
LastLines(lines, n) ==
    IF n = 0 THEN lines ELSE SubSeq(lines, Max(1, Len(lines) - n + 1), Len(lines))

\* the incremental read loop: from offset pos until log_batch_size records
\* were parsed or the source ends; <<records, f.tell()>>
RECURSIVE ReadBatch(_, _, _, _)
ReadBatch(file, pos, log_count, acc) ==
    IF log_count >= log_batch_size \/ pos >= Len(file) THEN <<acc, pos>>
    ELSE IF file[pos + 1] # Malformed
         THEN ReadBatch(file, pos + 1, log_count + 1, Append(acc, file[pos + 1]))
         ELSE ReadBatch(file, pos + 1, log_count, acc)

\* the dedup pass under vector_lock: digests absent from the metadata keys,
\* each once, in order of first occurrence (unique_logs is a dict)
RECURSIVE FilterNovelAll(_, _, _)
FilterNovelAll(logs, meta, acc) ==
    IF logs = <<>> THEN acc
    ELSE FilterNovelAll(Tail(logs), meta,
            IF InSeq(acc, Head(logs)) THEN acc ELSE Append(acc, Head(logs)))

RECURSIVE FilterNovel(_, _, _)
FilterNovel(logs, meta, acc) ==
    IF logs = <<>> THEN acc
    ELSE FilterNovel(Tail(logs), meta,
            IF Head(logs) \in DOMAIN meta \/ InSeq(acc, Head(logs))
            THEN acc ELSE Append(acc, Head(logs)))

NumChunks(n) == (n + chunk_size - 1) \div chunk_size
ChunkOf(texts, c) ==
    SubSeq(texts, (c - 1) * chunk_size + 1, Min(c * chunk_size, Len(texts)))
\* embeddings_list stacked: the chunks whose encode call did not raise
RECURSIVE Vstack(_, _, _)
Vstack(texts, c, failed) ==
    IF c > NumChunks(Len(texts)) THEN <<>>
    ELSE (IF c \in failed THEN <<>> ELSE ChunkOf(texts, c))
         \o Vstack(texts, c + 1, failed)

\* vector_db.add_with_ids: row i of the matrix gets ids[i]
AddWithIds(index, embs, ids) ==
    index \o [i \in 1..Len(embs) |-> [id |-> ids[i], emb |-> embs[i]]]

\* for sha, log in unique_logs.items(): metadata_db[sha] = log
UpdateMetadata(meta, uniq, ids) ==
    [d \in DOMAIN meta \cup Range(uniq) |->
        IF InSeq(uniq, d)
        THEN ids[CHOOSE i \in 1..Len(uniq) : uniq[i] = d]
        ELSE meta[d]]

\* the critical section that adds to the index and the metadata map
\* (try: add_with_ids; metadata update / except: log and return).
\* add_with_ids raises when the matrix and the id array differ in length.
InsertStep(index, meta, embs, ids, uniq) ==
    IF Len(embs) = Len(ids)
    THEN [index |-> AddWithIds(index, embs, ids),
          meta |-> UpdateMetadata(meta, uniq, ids), status |-> "Ready"]
    ELSE [index |-> index, meta |-> meta, status |-> "Vector DB update failed"]

\* initialize_vector_db: what a start of the process loads from the two files
\* (a file that cannot be read makes it start from an empty index)
LoadedStore(dIndex, dMeta) ==
    IF ~dIndex.valid \/ ~dMeta.valid
    THEN [index |-> <<>>, meta |-> EmptyMeta]
    ELSE [index |-> dIndex.data, meta |-> dMeta.data]

\* ------------------------------------------------------------------ Init
NoLocals == [p \in Procs |-> <<>>]

IngestInit ==
    /\ logFile = <<>>
    /\ posFile = NoPos
    /\ vector_db = <<>>
    /\ metadata_db = EmptyMeta
    /\ diskIndex = File(<<>>)
    /\ diskMeta = File(EmptyMeta)
    /\ app_status = "Ready"
    /\ pc = [p \in Procs |-> "idle"]
    /\ logs_to_process = NoLocals
    /\ current_position = [p \in Procs |-> 0]
    /\ rotation_detected = [p \in Procs |-> FALSE]
    /\ unique_logs = NoLocals
    /\ faiss_ids = NoLocals
    /\ embeddings = NoLocals
    /\ crashes = 0

\* ------------------------------------------------------- the log source
\* the SIEM appends one line
AppendLine(l) ==
    /\ Len(logFile) < MaxFileLen
    /\ logFile' = Append(logFile, l)
    /\ UNCHANGED <<posFile, vector_db, metadata_db, diskIndex, diskMeta,
                   app_status, pc, logs_to_process, current_position,
                   rotation_detected, unique_logs, faiss_ids, embeddings, crashes>>

\* the source is rotated / truncated: only its first k lines remain
RotateLog(k) ==
    /\ k < Len(logFile)
    /\ logFile' = SubSeq(logFile, 1, k)
    /\ UNCHANGED <<posFile, vector_db, metadata_db, diskIndex, diskMeta,
                   app_status, pc, logs_to_process, current_position,
                   rotation_detected, unique_logs, faiss_ids, embeddings, crashes>>

\* ------------------------------------------------------------ the cycle
\* background_worker's loop body begins / POST /api/analyze arrives.
\* Neither checks whether the other execution is inside a cycle.
StartCycle(p) ==
    /\ pc[p] = "idle"
    /\ pc' = [pc EXCEPT ![p] = "process_logs"]
    /\ app_status' = IF p = "worker" THEN "Processing logs..." ELSE app_status
    /\ UNCHANGED <<logFile, posFile, vector_db, metadata_db, diskIndex, diskMeta,
                   logs_to_process, current_position, rotation_detected,
                   unique_logs, faiss_ids, embeddings, crashes>>

\* process_logs up to the end of the read
ProcessLogsRead(p) ==
    /\ pc[p] = "process_logs"
    /\ LET is_initial_run == ntotal(vector_db) = 0
           file_size == Len(logFile)
           stored == get_log_position
           last_position == StartPosition(stored, file_size)
           batch == ReadBatch(logFile, last_position, 0, <<>>)
       IN /\ rotation_detected' = [rotation_detected EXCEPT ![p] = stored > file_size]
          /\ logs_to_process' = [logs_to_process EXCEPT ![p] =
                IF is_initial_run
                THEN ParseLines(LastLines(logFile, initial_scan_count))
                ELSE batch[1]]
          /\ current_position' = [current_position EXCEPT ![p] =
                IF is_initial_run THEN file_size ELSE batch[2]]
    /\ pc' = [pc EXCEPT ![p] = "set_position"]
    /\ UNCHANGED <<logFile, posFile, vector_db, metadata_db, diskIndex, diskMeta,
                   app_status, unique_logs, faiss_ids, embeddings, crashes>>

\* set_log_position(current_position), then the branch on logs_to_process
SetLogPosition(p) ==
    /\ pc[p] = "set_position"
    /\ posFile' = current_position[p]
    /\ pc' = [pc EXCEPT ![p] =
            IF logs_to_process[p] # <<>> THEN "add_check" ELSE "end_cycle"]
    /\ UNCHANGED <<logFile, vector_db, metadata_db, diskIndex, diskMeta,
                   app_status, logs_to_process, current_position,
                   rotation_detected, unique_logs, faiss_ids, embeddings, crashes>>

\* add_to_vector_db: dedup under vector_lock, then a random handle per record
AddCheck(p) ==
    /\ pc[p] = "add_check"
    /\ vector_lock = "free"
    /\ LET uniq == FilterNovel(logs_to_process[p], metadata_db, <<>>)
       IN /\ unique_logs' = [unique_logs EXCEPT ![p] = uniq]
          /\ IF uniq = <<>>
             THEN /\ app_status' = "Ready"
                  /\ pc' = [pc EXCEPT ![p] = "save_index"]
                  /\ UNCHANGED faiss_ids
             ELSE /\ \E ids \in [1..Len(uniq) -> Handles] :
                        faiss_ids' = [faiss_ids EXCEPT ![p] = ids]
                  /\ app_status' = "Vectorizing"
                  /\ pc' = [pc EXCEPT ![p] = "embed"]
    /\ UNCHANGED <<logFile, posFile, vector_db, metadata_db, diskIndex, diskMeta,
                   logs_to_process, current_position, rotation_detected,
                   embeddings, crashes>>

\* add_to_vector_db: embedding_model.encode per chunk; a failed chunk is skipped
AddEmbed(p) ==
    /\ pc[p] = "embed"
    /\ \E failed \in SUBSET (1..NumChunks(Len(unique_logs[p]))) :
        LET embs == Vstack(unique_logs[p], 1, failed)
        IN /\ embeddings' = [embeddings EXCEPT ![p] = embs]
           /\ IF embs = <<>>
              THEN /\ app_status' = "Embedding generation failed"
                   /\ pc' = [pc EXCEPT ![p] = "save_index"]
              ELSE /\ app_status' = "Adding to vector database..."
                   /\ pc' = [pc EXCEPT ![p] = "insert"]
    /\ UNCHANGED <<logFile, posFile, vector_db, metadata_db, diskIndex, diskMeta,
                   logs_to_process, current_position, rotation_detected,
                   unique_logs, faiss_ids, crashes>>

\* add_to_vector_db: the insert under vector_lock
AddInsert(p) ==
    /\ pc[p] = "insert"
    /\ vector_lock = "free"
    /\ LET r == InsertStep(vector_db, metadata_db, embeddings[p], faiss_ids[p],
                           unique_logs[p])
       IN /\ vector_db' = r.index
          /\ metadata_db' = r.meta
          /\ app_status' = r.status
    /\ pc' = [pc EXCEPT ![p] = "save_index"]
    /\ UNCHANGED <<logFile, posFile, diskIndex, diskMeta, logs_to_process,
                   current_position, rotation_detected, unique_logs, faiss_ids,
                   embeddings, crashes>>

\* save_vector_db: faiss.write_index(vector_db, VECTOR_DB_FILE)
SaveIndex(p) ==
    /\ pc[p] = "save_index"
    /\ diskIndex' = File(vector_db)
    /\ pc' = [pc EXCEPT ![p] = "save_meta"]
    /\ UNCHANGED <<logFile, posFile, vector_db, metadata_db, diskMeta, app_status,
                   logs_to_process, current_position, rotation_detected,
                   unique_logs, faiss_ids, embeddings, crashes>>

\* save_vector_db: json.dump(metadata_db) into METADATA_DB_FILE
SaveMeta(p) ==
    /\ pc[p] = "save_meta"
    /\ diskMeta' = File(metadata_db)
    /\ pc' = [pc EXCEPT ![p] = "analyze"]
    /\ UNCHANGED <<logFile, posFile, vector_db, metadata_db, diskIndex, app_status,
                   logs_to_process, current_position, rotation_detected,
                   unique_logs, faiss_ids, embeddings, crashes>>

\* the analysis stage of the cycle (new_logs is not empty)
Analyze(p) ==
    /\ pc[p] = "analyze"
    /\ pc' = [pc EXCEPT ![p] = "end_cycle"]
    /\ app_status' = IF p = "worker" THEN "AI analyzing logs..." ELSE app_status
    /\ UNCHANGED <<logFile, posFile, vector_db, metadata_db, diskIndex, diskMeta,
                   logs_to_process, current_position, rotation_detected,
                   unique_logs, faiss_ids, embeddings, crashes>>

\* last_run, save_dashboard_data; the worker sleeps, the request returns
EndCycle(p) ==
    /\ pc[p] = "end_cycle"
    /\ vector_lock = "free"
    /\ pc' = [pc EXCEPT ![p] = "idle"]
    /\ app_status' = IF p = "worker" THEN "Idle" ELSE app_status
    /\ logs_to_process' = [logs_to_process EXCEPT ![p] = <<>>]
    /\ current_position' = [current_position EXCEPT ![p] = 0]
    /\ rotation_detected' = [rotation_detected EXCEPT ![p] = FALSE]
    /\ unique_logs' = [unique_logs EXCEPT ![p] = <<>>]
    /\ faiss_ids' = [faiss_ids EXCEPT ![p] = <<>>]
    /\ embeddings' = [embeddings EXCEPT ![p] = <<>>]
    /\ UNCHANGED <<logFile, posFile, vector_db, metadata_db, diskIndex, diskMeta, crashes>>

\* ------------------------------------------------------ crash and restart
\* The process dies.  A file that was being written is left as it was before
\* the write began, or cut short.
Crash ==
    /\ \A p \in Procs : pc[p] # "down"
    /\ crashes < MaxCrashes
    /\ crashes' = crashes + 1
    /\ \/ UNCHANGED <<diskIndex, diskMeta>>
       \/ /\ \E p \in Procs : pc[p] = "save_index"
          /\ diskIndex' = Partial
          /\ UNCHANGED diskMeta
       \/ /\ \E p \in Procs : pc[p] = "save_meta"
          /\ diskMeta' = Partial
          /\ UNCHANGED diskIndex
    /\ pc' = [p \in Procs |-> "down"]
    /\ vector_db' = <<>>
    /\ metadata_db' = EmptyMeta
    /\ app_status' = "Initializing..."
    /\ logs_to_process' = NoLocals
    /\ current_position' = [p \in Procs |-> 0]
    /\ rotation_detected' = [p \in Procs |-> FALSE]
    /\ unique_logs' = NoLocals
    /\ faiss_ids' = NoLocals
    /\ embeddings' = NoLocals
    /\ UNCHANGED <<logFile, posFile>>

\* the process starts again: initialize_vector_db
Reload ==
    /\ \A p \in Procs : pc[p] = "down"
    /\ LET s == LoadedStore(diskIndex, diskMeta)
       IN /\ vector_db' = s.index
          /\ metadata_db' = s.meta
    /\ pc' = [p \in Procs |-> "idle"]
    /\ app_status' = "Ready"
    /\ UNCHANGED <<logFile, posFile, diskIndex, diskMeta, logs_to_process,
                   current_position, rotation_detected, unique_logs, faiss_ids,
                   embeddings, crashes>>

\* ------------------------------------------------- completion client
\* n credentials are configured in the environment
GeminiInitWith(n) ==
    /\ num_keys = n
    /\ current_api_key_index = 0
    /\ consecutive_failures = [k \in KeyIdx |-> 0]
    /\ call_pc = [c \in Calls |-> "idle"]
    /\ current_key = [c \in Calls |-> NoKey]
    /\ retry_count = [c \in Calls |-> 0]
    /\ last_outcome = [c \in Calls |-> "none"]
    /\ since_ok = [k \in KeyIdx |-> 0]
    /\ run_key = NoKey
    /\ run429 = 0
    /\ single429 = [c \in Calls |-> NoKey]
    /\ total_expected = [c \in Calls |-> 0]
    /\ requests = [c \in Calls |-> 0]
    /\ bucket_keys = {}
GeminiInit == \E n \in 1..MaxKeys : GeminiInitWith(n)

\* the test that follows the sleep after a response that asks for a retry:
\* rotate (and retry without counting the attempt) or count the attempt
ShouldRotateAnyError(outcome, failures) == outcome # "ok"
ShouldRotateOn429(outcome, failures) == outcome = "429"
ShouldRotateAt4(outcome, failures) == outcome = "429" /\ failures >= 4
ShouldRotate(outcome, failures) == outcome = "429" /\ failures >= 3

\* rotate_api_key: next index round-robin, reset the old credential's counter
\* a rotation that passes over the next credential
RotatedIndexSkip(index, n) == (index + 2) % n
RotatedIndex(index, n) == (index + 1) % n

\* the prompt size guard
PromptTooLargeNever(total) == FALSE
PromptTooLarge(total) == total > TokenCeiling

\* call_gemini_api is entered.  An oversized prompt is refused before the loop.
CallStart(c, total) ==
    /\ call_pc[c] = "idle"
    /\ total_expected' = [total_expected EXCEPT ![c] = total]
    /\ call_pc' = [call_pc EXCEPT ![c] =
            IF PromptTooLarge(total) THEN "failed" ELSE "loop"]
    /\ retry_count' = [retry_count EXCEPT ![c] = 0]
    /\ requests' = [requests EXCEPT ![c] = 0]
    /\ last_outcome' = [last_outcome EXCEPT ![c] =
            IF PromptTooLarge(total) THEN "too_large" ELSE "none"]
    /\ UNCHANGED <<num_keys, current_api_key_index, consecutive_failures,
                   current_key, since_ok, run_key, run429, single429,
                   bucket_keys>>

\* top of the while loop: leave past the cap, or take the active credential,
\* wait on its two buckets and post the request
CallSend(c) ==
    /\ call_pc[c] = "loop"
    /\ IF retry_count[c] >= max_retries
       THEN /\ call_pc' = [call_pc EXCEPT ![c] = "failed"]
            /\ last_outcome' = [last_outcome EXCEPT ![c] = "max_retries"]
            /\ UNCHANGED <<current_key, run_key, run429, requests, bucket_keys>>
       ELSE /\ call_pc' = [call_pc EXCEPT ![c] = "await_response"]
            /\ bucket_keys' = bucket_keys \cup {current_api_key_index}
            /\ requests' = [requests EXCEPT ![c] = Min(@ + 1, MaxRequests)]
            /\ current_key' = [current_key EXCEPT ![c] = current_api_key_index]
            /\ run_key' = current_api_key_index
            /\ run429' = IF run_key = current_api_key_index THEN run429 ELSE 0
            /\ UNCHANGED last_outcome
    /\ UNCHANGED <<num_keys, current_api_key_index, consecutive_failures,
                   retry_count, since_ok, single429, total_expected>>

\* the response arrives (or the request times out)
CallResponse(c, outcome) ==
    /\ call_pc[c] = "await_response"
    /\ last_outcome' = [last_outcome EXCEPT ![c] = outcome]
    /\ LET k == current_key[c] IN
       /\ consecutive_failures' =
            [consecutive_failures EXCEPT ![k] =
                IF outcome = "429" THEN @ + 1
                ELSE IF outcome \in {"ok", "malformed"} THEN 0 ELSE @]
       /\ since_ok' = [since_ok EXCEPT ![k] =
                IF outcome = "429" THEN @ + 1
                ELSE IF outcome \in {"ok", "malformed"} THEN 0 ELSE @]
       /\ run429' = IF outcome = "429" THEN Min(run429 + 1, 4) ELSE 0
       /\ single429' = [single429 EXCEPT ![c] =
                IF outcome = "429" /\ since_ok[k] = 0 THEN k ELSE NoKey]
    /\ call_pc' = [call_pc EXCEPT ![c] =
            CASE outcome = "ok" -> "done"
              [] outcome \in {"malformed", "5xx"} -> "failed"
              [] OTHER -> "sleep"]
    /\ UNCHANGED <<num_keys, current_api_key_index, current_key, retry_count,
                   run_key, total_expected, requests, bucket_keys>>

\* after the sleep that follows a 429 or a timeout
CallAfterSleep(c) ==
    /\ call_pc[c] = "sleep"
    /\ IF ShouldRotate(last_outcome[c], consecutive_failures[current_key[c]])
       THEN /\ current_api_key_index' = RotatedIndex(current_api_key_index, num_keys)
            /\ consecutive_failures' =
                    [consecutive_failures EXCEPT ![current_api_key_index] = 0]
            /\ since_ok' = [since_ok EXCEPT ![current_api_key_index] = 0]
            /\ UNCHANGED retry_count
       ELSE /\ retry_count' = [retry_count EXCEPT ![c] = @ + 1]
            /\ UNCHANGED <<current_api_key_index, consecutive_failures, since_ok>>
    /\ call_pc' = [call_pc EXCEPT ![c] = "loop"]
    /\ UNCHANGED <<num_keys, current_key, last_outcome, run_key, run429, single429,
                   total_expected, requests, bucket_keys>>

\* the same two steps as they interleave when invocations run in different
\* threads (the worker's event loop and the API server's): the test of the
\* failure counter after the sleep ...
CallCheck(c) ==
    /\ call_pc[c] = "sleep"
    /\ IF ShouldRotate(last_outcome[c], consecutive_failures[current_key[c]])
       THEN /\ call_pc' = [call_pc EXCEPT ![c] = "rotate"]
            /\ UNCHANGED retry_count
       ELSE /\ call_pc' = [call_pc EXCEPT ![c] = "loop"]
            /\ retry_count' = [retry_count EXCEPT ![c] = @ + 1]
    /\ UNCHANGED <<num_keys, current_api_key_index, consecutive_failures,
                   current_key, last_outcome, since_ok, run_key, run429,
                   single429, total_expected, requests, bucket_keys>>

\* ... and rotate_api_key, which works on the index it finds
CallRotate(c) ==
    /\ call_pc[c] = "rotate"
    /\ current_api_key_index' = RotatedIndex(current_api_key_index, num_keys)
    /\ consecutive_failures' =
            [consecutive_failures EXCEPT ![current_api_key_index] = 0]
    /\ since_ok' = [since_ok EXCEPT ![current_api_key_index] = 0]
    /\ call_pc' = [call_pc EXCEPT ![c] = "loop"]
    /\ UNCHANGED <<num_keys, current_key, retry_count, last_outcome, run_key,
                   run429, single429, total_expected, requests, bucket_keys>>

\* the invocation returns its text or raises
CallReturn(c) ==
    /\ call_pc[c] \in {"done", "failed"}
    /\ call_pc' = [call_pc EXCEPT ![c] = "idle"]
    /\ current_key' = [current_key EXCEPT ![c] = NoKey]
    /\ retry_count' = [retry_count EXCEPT ![c] = 0]
    /\ last_outcome' = [last_outcome EXCEPT ![c] = "none"]
    /\ single429' = [single429 EXCEPT ![c] = NoKey]
    /\ total_expected' = [total_expected EXCEPT ![c] = 0]
    /\ requests' = [requests EXCEPT ![c] = 0]
    /\ UNCHANGED <<num_keys, current_api_key_index, consecutive_failures,
                   since_ok, run_key, run429, bucket_keys>>

CallStep(c) ==
    \/ \E total \in Totals : CallStart(c, total)
    \/ CallSend(c)
    \/ \E outcome \in Outcomes : CallResponse(c, outcome)
    \/ CallAfterSleep(c)
    \/ CallReturn(c)

\* ------------------------------------------------------- issue engine
IssuesInit ==
    /\ vector_lock = "free"
    /\ issues = <<>>
    /\ ignored_issue_ids = {}
    /\ rpc = "idle"
    /\ identified_issues = <<>>
    /\ existing_signatures = {}
    /\ new_issues = <<>>
    /\ existing_issue_ids = {}
    /\ ignored_signatures = {}
    /\ last_batch = <<>>

Lower(severity) == "high"
\* generate_issue_signature: severity.lower() | first 5 title words in lower
\* case | first 10 summary words in lower case
generate_issue_signature(issue_data) ==
    <<Lower(issue_data.severity), issue_data.title[1], issue_data.summary>>
\* issue_id: the hash of the whole title
IssueId(issue_data) == issue_data.title
MakeIssue(issue_data) ==
    [id |-> IssueId(issue_data), severity |-> issue_data.severity,
     title |-> issue_data.title, summary |-> issue_data.summary]
SignaturesOf(list) == {generate_issue_signature(list[i]) : i \in 1..Len(list)}
IdsOf(list) == {list[i].id : i \in 1..Len(list)}
Without(list, id) == SelectSeq(list, LAMBDA i : i.id # id)
\* list[:n] of Python, n >= 0
Truncate(list, n) == SubSeq(list, 1, Min(n, Len(list)))

\* the decision on one candidate: TRUE when it is appended to new_issues
AcceptsIgnoringSignature(issue_data, signatures, ignored) ==
    IssueId(issue_data) \notin ignored
Accepts(issue_data, signatures, ignored) ==
    /\ generate_issue_signature(issue_data) \notin signatures
    /\ IssueId(issue_data) \notin ignored

\* the worker enters analyze_context_and_identify_issues (process_logs, which
\* ends with save_dashboard_data under vector_lock, has returned new logs)
BeginAnalysis ==
    /\ rpc = "idle"
    /\ vector_lock = "free"
    /\ rpc' = "analyzing"
    /\ UNCHANGED <<issues, ignored_issue_ids, identified_issues,
                   existing_signatures, new_issues, existing_issue_ids,
                   ignored_signatures, vector_lock, last_batch>>

\* the completion answer is parsed; existing_signatures is computed
ReconcileStart(cands) ==
    /\ rpc = "analyzing"
    /\ identified_issues' = cands
    /\ existing_signatures' = SignaturesOf(issues)
    /\ new_issues' = <<>>
    /\ rpc' = "check"
    /\ last_batch' = cands
    /\ UNCHANGED <<issues, ignored_issue_ids, existing_issue_ids,
                   ignored_signatures, vector_lock>>

\* one turn of "for issue_data in identified_issues"
ReconcileCheck ==
    /\ rpc = "check"
    /\ identified_issues # <<>>
    /\ LET issue_data == Head(identified_issues)
       IN IF Accepts(issue_data, existing_signatures, ignored_issue_ids)
          THEN /\ new_issues' = Append(new_issues, MakeIssue(issue_data))
               /\ existing_signatures' =
                    existing_signatures \cup {generate_issue_signature(issue_data)}
          ELSE UNCHANGED <<new_issues, existing_signatures>>
    /\ identified_issues' = Tail(identified_issues)
    /\ UNCHANGED <<issues, ignored_issue_ids, rpc, existing_issue_ids,
                   ignored_signatures, vector_lock, last_batch>>

\* existing_issue_ids = {i['id'] for i in dashboard_data["issues"]}
ReconcileIds ==
    /\ rpc = "check"
    /\ identified_issues = <<>>
    /\ existing_issue_ids' = IdsOf(issues)
    /\ rpc' = "insert"
    /\ UNCHANGED <<issues, ignored_issue_ids, identified_issues,
                   existing_signatures, new_issues, ignored_signatures, vector_lock, last_batch>>

\* one turn of "for issue in new_issues": insert at the front
ReconcileInsert ==
    /\ rpc = "insert"
    /\ new_issues # <<>>
    /\ issues' = IF Head(new_issues).id \notin existing_issue_ids
                 THEN <<Head(new_issues)>> \o issues ELSE issues
    /\ new_issues' = Tail(new_issues)
    /\ UNCHANGED <<ignored_issue_ids, rpc, identified_issues, existing_signatures,
                   existing_issue_ids, ignored_signatures, vector_lock, last_batch>>

\* dashboard_data["issues"] = dashboard_data["issues"][:settings["max_issues"]]
ReconcileTruncate ==
    /\ rpc = "insert"
    /\ new_issues = <<>>
    /\ issues' = Truncate(issues, max_issues)
    /\ rpc' = "save"
    /\ existing_signatures' = {}
    /\ existing_issue_ids' = {}
    /\ UNCHANGED <<ignored_issue_ids, identified_issues, new_issues,
                   ignored_signatures, vector_lock, last_batch>>

\* await save_dashboard_data(): needs vector_lock
ReconcileSave ==
    /\ rpc = "save"
    /\ vector_lock = "free"
    /\ rpc' = "idle"
    /\ UNCHANGED <<issues, ignored_issue_ids, identified_issues,
                   existing_signatures, new_issues, existing_issue_ids,
                   ignored_signatures, vector_lock, last_batch>>

\* POST /api/issues/{issue_id}/ignore
ignore_issue(issue_id) ==
    /\ issues' = Without(issues, issue_id)
    /\ ignored_issue_ids' = ignored_issue_ids \cup {issue_id}
    /\ ignored_signatures' = ignored_signatures \cup
            {generate_issue_signature(issues[i]) :
                i \in {j \in 1..Len(issues) : issues[j].id = issue_id}}
    /\ UNCHANGED <<rpc, identified_issues, existing_signatures, new_issues,
                   existing_issue_ids, vector_lock, last_batch>>

\* POST /api/clear_db: clear_database takes vector_lock, empties the store and
\* the issue list, saves the store, and then awaits save_dashboard_data, which
\* asks for vector_lock again
clear_database ==
    /\ vector_lock = "free"
    /\ \A p \in Procs : pc[p] # "down"
    /\ vector_lock' = "held"
    /\ vector_db' = <<>>
    /\ metadata_db' = EmptyMeta
    /\ diskIndex' = File(<<>>)
    /\ diskMeta' = File(EmptyMeta)
    /\ issues' = <<>>
    /\ UNCHANGED <<logFile, posFile, app_status, pc, logs_to_process,
                   current_position, rotation_detected, unique_logs, faiss_ids,
                   embeddings, crashes>>
    /\ UNCHANGED <<ignored_issue_ids, rpc, identified_issues, existing_signatures,
                   new_issues, existing_issue_ids, ignored_signatures, last_batch>>

\* --------------------------------------------------------- specifications
\* ------------------------------------------------ cycle orchestrators
WorkerInit ==
    /\ w_pc = "cycle"
    /\ w_status = "Ready"
    /\ processing_interval = MaxInterval
    /\ cycle_count = 1
    /\ w_call = "none"
    /\ periodic_pc = "cycle"

\* how call_gemini_api can end inside analyze_context_and_identify_issues
\* ("none": the cycle had no new logs and made no call)
CallResults == {"none", "ok", "failed"}

\* background_worker: the body of the inner try (process_logs, metrics,
\* analysis, save) either completes or raises an exception.  An exception of
\* call_gemini_api is caught inside analyze_context_and_identify_issues, which
\* records a summary and returns normally.
WorkerRunCycle(raises, call) ==
    /\ w_pc = "cycle"
    /\ w_call' = call
    /\ IF raises
       THEN w_pc' = "handler" /\ UNCHANGED w_status
       ELSE w_pc' = "timing" /\ w_status' = "Idle"
    /\ UNCHANGED <<processing_interval, cycle_count, periodic_pc>>

\* background_worker: except Exception of the inner try
WorkerHandleError ==
    /\ w_pc = "handler"
    /\ w_status' = "Error"
    /\ w_pc' = "timing"
    /\ UNCHANGED <<processing_interval, cycle_count, w_call, periodic_pc>>

\* background_worker: time.sleep(settings['processing_interval']) after the
\* inner try; time.sleep raises ValueError for a negative length, which only
\* the outer except catches, and the function returns
WorkerSleep ==
    /\ w_pc = "timing"
    /\ IF processing_interval < 0
       THEN /\ w_pc' = "exited"
            /\ w_status' = "Fatal error - worker crashed"
            /\ UNCHANGED cycle_count
       ELSE /\ cycle_count < MaxCycles
            /\ w_pc' = "cycle"
            /\ cycle_count' = cycle_count + 1
            /\ UNCHANGED w_status
    /\ UNCHANGED <<processing_interval, w_call, periodic_pc>>

\* POST /api/settings: any integer is accepted
update_settings(v) ==
    /\ processing_interval' = v
    /\ UNCHANGED <<w_pc, w_status, cycle_count, w_call, periodic_pc>>

\* main.py periodic: process_logs and analyze are awaited with no try
\* around them; an exception ends the task
PeriodicCycle(raises) ==
    /\ periodic_pc = "cycle"
    /\ periodic_pc' = IF raises THEN "dead" ELSE "sleep"
    /\ UNCHANGED <<w_pc, w_status, processing_interval, cycle_count, w_call>>

\* main.py periodic: asyncio.sleep(interval) returns for every integer
PeriodicSleep ==
    /\ periodic_pc = "sleep"
    /\ periodic_pc' = "cycle"
    /\ UNCHANGED <<w_pc, w_status, processing_interval, cycle_count, w_call>>

\* -------------------------------------------------------- TokenBucket
BucketInit ==
    /\ clock = 0
    /\ bk_tokens = BucketCapacity
    /\ bk_last_refill = 0
    /\ bk_lock = 0
    /\ b_pc = [q \in Callers |-> "idle"]
    /\ b_n = [q \in Callers |-> 0]
    /\ b_wait = [q \in Callers |-> FALSE]
    /\ b_now = [q \in Callers |-> 0]
    /\ b_seen = [q \in Callers |-> 0]
    /\ b_result = [q \in Callers |-> "none"]
    /\ last_consumed = 0

\* self.tokens after the refill for the time that has passed
RefilledNoCap(tokens, elapsed) == tokens + elapsed * refill_rate
Refilled(tokens, elapsed) == Min(BucketCapacity, tokens + elapsed * refill_rate)

\* async with self.lock: the lock is taken when no coroutine holds it
CanAcquireAlways(lock) == TRUE
CanAcquire(lock) == lock = 0

\* time passes
Tick ==
    /\ clock < MaxClock
    /\ clock' = clock + 1
    /\ UNCHANGED <<bk_tokens, bk_last_refill, bk_lock, b_pc, b_n, b_wait, b_now,
                   b_seen, b_result, last_consumed>>

\* a coroutine calls consume(n) or wait_for_tokens(n)
ConsumeCall(q, n, waiting) ==
    /\ b_pc[q] = "idle"
    /\ b_pc' = [b_pc EXCEPT ![q] = "acquire"]
    /\ b_n' = [b_n EXCEPT ![q] = n]
    /\ b_wait' = [b_wait EXCEPT ![q] = waiting]
    /\ b_result' = [b_result EXCEPT ![q] = "none"]
    /\ UNCHANGED <<clock, bk_tokens, bk_last_refill, bk_lock, b_now, b_seen,
                   last_consumed>>

ConsumeAcquire(q) ==
    /\ b_pc[q] = "acquire"
    /\ CanAcquire(bk_lock)
    /\ bk_lock' = q
    /\ b_pc' = [b_pc EXCEPT ![q] = "refill"]
    /\ UNCHANGED <<clock, bk_tokens, bk_last_refill, b_n, b_wait, b_now, b_seen,
                   b_result, last_consumed>>

\* now = time.time(); refill for the elapsed time; last_refill = now
ConsumeRefill(q) ==
    /\ b_pc[q] = "refill"
    /\ b_now' = [b_now EXCEPT ![q] = clock]
    /\ bk_tokens' = Refilled(bk_tokens, clock - bk_last_refill)
    /\ bk_last_refill' = clock
    /\ b_pc' = [b_pc EXCEPT ![q] = "check"]
    /\ UNCHANGED <<clock, bk_lock, b_n, b_wait, b_seen, b_result, last_consumed>>

\* if self.tokens >= tokens
ConsumeCheck(q) ==
    /\ b_pc[q] = "check"
    /\ b_seen' = [b_seen EXCEPT ![q] = bk_tokens]
    /\ IF bk_tokens >= b_n[q]
       THEN /\ b_pc' = [b_pc EXCEPT ![q] = "decrement"]
            /\ UNCHANGED b_result
       ELSE /\ b_pc' = [b_pc EXCEPT ![q] = "release"]
            /\ b_result' = [b_result EXCEPT ![q] = "false"]
    /\ UNCHANGED <<clock, bk_tokens, bk_last_refill, bk_lock, b_n, b_wait, b_now,
                   last_consumed>>

\* self.tokens -= tokens; return True
ConsumeDecrement(q) ==
    /\ b_pc[q] = "decrement"
    /\ bk_tokens' = bk_tokens - b_n[q]
    /\ b_result' = [b_result EXCEPT ![q] = "true"]
    /\ last_consumed' = b_now[q]
    /\ b_pc' = [b_pc EXCEPT ![q] = "release"]
    /\ UNCHANGED <<clock, bk_last_refill, bk_lock, b_n, b_wait, b_now, b_seen>>

\* the lock is released and consume returns; wait_for_tokens goes to sleep
\* after a failed consume
ConsumeRelease(q) ==
    /\ b_pc[q] = "release"
    /\ bk_lock' = 0
    /\ IF b_wait[q] /\ b_result[q] = "false"
       THEN /\ b_pc' = [b_pc EXCEPT ![q] = "sleep"]
            /\ UNCHANGED <<b_n, b_wait>>
       ELSE /\ b_pc' = [b_pc EXCEPT ![q] = "idle"]
            /\ b_n' = [b_n EXCEPT ![q] = 0]
            /\ b_wait' = [b_wait EXCEPT ![q] = FALSE]
    /\ b_now' = [b_now EXCEPT ![q] = 0]
    /\ b_seen' = [b_seen EXCEPT ![q] = 0]
    /\ UNCHANGED <<clock, bk_tokens, bk_last_refill, b_result, last_consumed>>

\* wait_for_tokens: the sleep ends and consume is called again
WaitRetry(q) ==
    /\ b_pc[q] = "sleep"
    /\ b_pc' = [b_pc EXCEPT ![q] = "acquire"]
    /\ b_result' = [b_result EXCEPT ![q] = "none"]
    /\ UNCHANGED <<clock, bk_tokens, bk_last_refill, bk_lock, b_n, b_wait, b_now,
                   b_seen, last_consumed>>

\* ------------------------------------------- WazuhAPI and VectorDB
Programs == {"Threat_Hunter.py", "threat_hunter"}
WazuhInitWith(program) ==
    /\ wz_pos = 0
    /\ wz_logs = <<>>
    /\ core_metadata = {}
    /\ core_index = <<>>
    /\ deployed = program
    /\ core_error = "none"
WazuhInit == WazuhInitWith("Threat_Hunter.py")

\* a reader that gives the batch up at the first line that fails to parse
RECURSIVE WazuhReadBatchAbort(_, _, _, _)
WazuhReadBatchAbort(file, pos, count, acc) ==
    IF count >= log_batch_size \/ pos >= Len(file) THEN <<acc, pos>>
    ELSE IF file[pos + 1] # Malformed
         THEN WazuhReadBatchAbort(file, pos + 1, count + 1,
                                  Append(acc, file[pos + 1]))
         ELSE <<acc, pos + 1>>

\* read_new_logs: seek(pos), then at most batch_size readline calls, each line
\* parsed or skipped; <<logs, f.tell()>>
RECURSIVE WazuhReadBatch(_, _, _, _)
WazuhReadBatch(file, pos, count, acc) ==
    IF count >= log_batch_size \/ pos >= Len(file) THEN <<acc, pos>>
    ELSE IF file[pos + 1] # Malformed
         THEN WazuhReadBatch(file, pos + 1, count + 1, Append(acc, file[pos + 1]))
         ELSE WazuhReadBatch(file, pos + 1, count + 1, acc)

\* int(sha[:16], 16): the unsigned 64-bit prefix of a record's digest, on the
\* scale on which np.int64 holds the values below Int64Limit
HexPrefix(d) == d % (2 * Int64Limit)

\* VectorDB.add_documents: a document whose id is a metadata key is skipped;
\* np.int64(doc_id) raises OverflowError for an id that does not fit, before
\* the metadata entry of that document and before add_with_ids of the batch;
\* <<metadata, index, raised>> (ids: the handles collected so far)
RECURSIVE AddDocuments(_, _, _, _)
AddDocuments(docs, meta, index, ids) ==
    IF docs = <<>> THEN <<meta, index \o ids, FALSE>>
    ELSE IF Head(docs) \in meta THEN AddDocuments(Tail(docs), meta, index, ids)
    ELSE IF HexPrefix(Head(docs)) >= Int64Limit THEN <<meta, index, TRUE>>
    ELSE AddDocuments(Tail(docs), meta \cup {Head(docs)}, index,
                      Append(ids, Head(docs)))

\* ThreatHunterCore.process_logs: read_new_logs, then add_documents
CoreProcessLogs ==
    /\ deployed = "threat_hunter"
    /\ LET batch == WazuhReadBatch(logFile, wz_pos, 0, <<>>)
           added == AddDocuments(batch[1], core_metadata, core_index, <<>>)
       IN /\ wz_logs' = batch[1]
          /\ wz_pos' = batch[2]
          /\ core_metadata' = added[1]
          /\ core_index' = added[2]
          /\ core_error' = IF added[3] THEN "OverflowError" ELSE "none"
    /\ UNCHANGED <<ingestVars, vector_lock, geminiVars, issueVars,
                   workerVars, bucketVars, deployed, moreVars>>

\* ------------------------------------------- buckets per credential
\* a model name, by the substrings the family test looks for
ModelNames == [pro : BOOLEAN, lite : BOOLEAN]
MODEL_QUOTA ==
    [family \in {"pro", "flash", "flash-lite"} |->
        CASE family = "pro" -> <<5, 250000>>
          [] family = "flash" -> <<10, 250000>>
          [] OTHER -> <<15, 250000>>]
get_model_family(model_name) ==
    IF model_name.pro THEN "pro"
    ELSE IF model_name.lite THEN "flash-lite" ELSE "flash"
NoBucket == <<>>
QuotaInit ==
    /\ quota_buckets = [k \in KeyIdx |-> NoBucket]
    /\ core_buckets = [k \in KeyIdx |-> NoBucket]
    /\ consulted = NoBucket

\* get_or_create_bucket(key, "rpm") and (key, "tpm"): <<rpm, tpm>> capacities
get_or_create_bucket(buckets, api_key) ==
    IF buckets[api_key] = NoBucket THEN <<10, 250000>> ELSE buckets[api_key]

\* call_gemini_api: the two buckets of the active credential are fetched
CallBuckets(api_key, model_name) ==
    /\ quota_buckets' = [quota_buckets EXCEPT ![api_key] =
            get_or_create_bucket(quota_buckets, api_key)]
    /\ consulted' = [family |-> get_model_family(model_name),
                     caps |-> get_or_create_bucket(quota_buckets, api_key)]
    /\ UNCHANGED core_buckets

\* Gemini.generate: setdefault(key, TokenBucket(limit of this call's family))
GenerateBuckets(api_key, model_name) ==
    LET limits == MODEL_QUOTA[get_model_family(model_name)]
        caps == IF core_buckets[api_key] = NoBucket THEN limits
                ELSE core_buckets[api_key]
    IN /\ core_buckets' = [core_buckets EXCEPT ![api_key] = caps]
       /\ consulted' = [family |-> get_model_family(model_name), caps |-> caps]
       /\ UNCHANGED quota_buckets

\* ------------------------------------------------------------ search
Queries == {"", "x"}
\* the guard that ends search_vector_db before any work
EarlyReturnNoQuery(query_text, index) == query_text = ""
EarlyReturn(query_text, index) == query_text = "" \/ ntotal(index) = 0

\* what a search leaves behind: the size of the index it met, whether it
\* called the embedding model, took the lock or raised, and its result
SearchOutcome(n, enc, lck, exc, res) ==
    [ntotal |-> n, encoded |-> enc, locked |-> lck, raised |-> exc,
     results |-> res]

\* search_vector_db: the k nearest entries, each resolved to the metadata key
\* that carries its handle; any exception is logged and [] is returned
search_vector_db(query_text, k, encode_fails) ==
    /\ \E hits \in SUBSET (1..Len(vector_db)) :
        /\ Cardinality(hits) = Min(k, Len(vector_db))
        /\ last_search' =
            IF EarlyReturn(query_text, vector_db)
            THEN SearchOutcome(ntotal(vector_db), FALSE, FALSE, FALSE, {})
            ELSE IF encode_fails
            THEN SearchOutcome(ntotal(vector_db), TRUE, FALSE, FALSE, {})
            ELSE SearchOutcome(ntotal(vector_db), TRUE, TRUE, FALSE,
                    {d \in DOMAIN metadata_db :
                        \E i \in hits : metadata_db[d] = vector_db[i].id})
    /\ EarlyReturn(query_text, vector_db) \/ encode_fails \/ vector_lock = "free"
    /\ UNCHANGED <<ingestVars, vector_lock, geminiVars, issueVars, workerVars,
                   bucketVars, wazuhVars, quotaVars, generateVars, analyzeVars>>

\* VectorDB.search: no handler around the encode call
CoreSearch(query, k, encode_fails) ==
    /\ deployed = "threat_hunter"
    /\ \E hits \in SUBSET (1..Len(core_index)) :
        /\ Cardinality(hits) = Min(k, Len(core_index))
        /\ last_search' =
            IF Len(core_index) = 0
            THEN SearchOutcome(0, FALSE, FALSE, FALSE, {})
            ELSE IF encode_fails
            THEN SearchOutcome(Len(core_index), TRUE, FALSE, TRUE, {})
            ELSE SearchOutcome(Len(core_index), TRUE, TRUE, FALSE,
                    {core_index[i] : i \in hits} \cap core_metadata)
    /\ UNCHANGED <<ingestVars, vector_lock, geminiVars, issueVars, workerVars,
                   bucketVars, wazuhVars, quotaVars, generateVars, analyzeVars>>

\* ----------------------------------------------- Gemini.generate
GenerateInit ==
    /\ gen_current = 0
    /\ gen_failures = [k \in KeyIdx |-> 0]
    /\ gen_last = "none"

\* Gemini.generate: the buckets of the current credential, the request, and
\* the handling of its result ("429": an exception whose text holds 429;
\* "error": any other exception)
Generate(model_name, outcome) ==
    /\ GenerateBuckets(gen_current, model_name)
    /\ gen_last' = outcome
    /\ LET failed == gen_failures[gen_current] + 1 IN
       CASE outcome = "ok" ->
                /\ gen_failures' = [gen_failures EXCEPT ![gen_current] = 0]
                /\ UNCHANGED gen_current
         [] outcome = "429" /\ failed < 3 ->
                /\ gen_failures' = [gen_failures EXCEPT ![gen_current] = failed]
                /\ UNCHANGED gen_current
         [] OTHER ->
                /\ gen_current' = (gen_current + 1) % num_keys
                /\ gen_failures' = [gen_failures EXCEPT ![gen_current] = 0]
    /\ UNCHANGED <<ingestVars, vector_lock, geminiVars, issueVars, workerVars,
                   bucketVars, wazuhVars, last_search>>

\* ----------------------------------------------- ThreatHunterCore issues
AnalyzeInit ==
    /\ core_issues = <<>>
    /\ core_ignored = {}
    /\ core_max_issues = max_issues

\* list[start:] of Python: a negative start counts from the end of the list
\* and is clamped at its beginning; -0 is 0
SliceFrom(list, start) ==
    LET from == IF start < 0 THEN Max(Len(list) + start, 0)
                ELSE Min(start, Len(list))
    IN SubSeq(list, from + 1, Len(list))

\* the id of the next issue; f"TH-{next_id:03d}" is compared for equality
\* only and is one-to-one on the naturals, so the number stands for the text
NextIssueId == Len(core_issues) + Cardinality(core_ignored) + 1

\* analyze with a non-empty record list (an empty one returns at once): the
\* completion call, whose text is "" when the request failed, then the new
\* issue, refused when its id is ignored or active, appended, the list cut
\* and saved. The title is the first line of the text.
CoreAnalyze(outcome) ==
    /\ NextIssueId <= MaxIssueId
    /\ Generate([pro |-> TRUE, lite |-> FALSE], outcome)
    /\ LET text == IF outcome = "ok" THEN "finding" ELSE ""
           issue == [id |-> NextIssueId, summary |-> text]
       IN IF \/ issue.id \in core_ignored
             \/ \E i \in 1..Len(core_issues) : core_issues[i].id = issue.id
          THEN UNCHANGED core_issues
          ELSE core_issues' =
                   SliceFrom(Append(core_issues, issue), 0 - core_max_issues)
    /\ UNCHANGED <<core_ignored, core_max_issues>>

\* ignore_issue: the issue leaves the list and its id joins the ignore set
IgnoreIssue(issue_id) ==
    /\ core_issues' = SelectSeq(core_issues, LAMBDA i : i.id # issue_id)
    /\ core_ignored' = core_ignored \cup {issue_id}
    /\ UNCHANGED <<ingestVars, vector_lock, geminiVars, issueVars, workerVars,
                   bucketVars, wazuhVars, quotaVars, last_search, generateVars,
                   core_max_issues>>

\* update_settings: any integer is stored
UpdateSettings(value) ==
    /\ core_max_issues' = value
    /\ UNCHANGED <<ingestVars, vector_lock, geminiVars, issueVars, workerVars,
                   bucketVars, wazuhVars, quotaVars, last_search, generateVars,
                   core_issues, core_ignored>>

\* clear_database: the store, the position file and the issues are reset;
\* self.ignored is kept
CoreClearDatabase ==
    /\ core_issues' = <<>>
    /\ core_metadata' = {}
    /\ core_index' = <<>>
    /\ wz_pos' = 0
    /\ UNCHANGED <<ingestVars, vector_lock, geminiVars, issueVars, workerVars,
                   bucketVars, wz_logs, deployed, core_error, quotaVars,
                   last_search, generateVars, core_ignored, core_max_issues>>

AnalyzeNext ==
    \/ \E outcome \in {"ok", "429", "error"} : CoreAnalyze(outcome)
    \/ \E issue_id \in 1..MaxIssueId : IgnoreIssue(issue_id)
    \/ \E value \in 0..MaxSetting : UpdateSettings(value)
    \/ CoreClearDatabase

MoreInit == QuotaInit /\ last_search = NoBucket /\ GenerateInit /\ AnalyzeInit

OtherInit == WorkerInit /\ BucketInit /\ WazuhInit /\ MoreInit

Init == IngestInit /\ GeminiInit /\ IssuesInit /\ OtherInit
\* the same with a single configured credential
InitOneKey == IngestInit /\ GeminiInitWith(1) /\ IssuesInit /\ OtherInit

Environment ==
    \/ \E l \in Lines : AppendLine(l)
    \/ \E k \in 0..MaxFileLen : RotateLog(k)

Cycle(p) ==
    \/ StartCycle(p)
    \/ ProcessLogsRead(p)
    \/ SetLogPosition(p)
    \/ AddCheck(p)
    \/ AddEmbed(p)
    \/ AddInsert(p)
    \/ SaveIndex(p)
    \/ SaveMeta(p)
    \/ Analyze(p)
    \/ EndCycle(p)

\* ingestion by the background worker alone, no crash
IngestNext ==
    /\ Environment \/ Cycle("worker")
    /\ UNCHANGED <<vector_lock, geminiVars, issueVars, otherVars>>
SpecIngest == InitOneKey /\ [][IngestNext]_vars

\* the background worker with a crash and a restart of the process
CrashNext ==
    /\ Environment \/ Cycle("worker") \/ Crash \/ Reload
    /\ UNCHANGED <<vector_lock, geminiVars, issueVars, otherVars>>
SpecCrash == InitOneKey /\ [][CrashNext]_vars

\* the background worker and a manually triggered cycle
CyclesNext ==
    /\ (\E l \in Digests : AppendLine(l)) \/ (\E p \in Procs : Cycle(p))
    /\ UNCHANGED <<vector_lock, geminiVars, issueVars, otherVars>>
SpecCycles == InitOneKey /\ [][CyclesNext]_vars

\* the completion client, one invocation at a time
GeminiNext ==
    /\ \E c \in Calls :
        /\ \A o \in Calls \ {c} : call_pc[o] = "idle"
        /\ CallStep(c)
    /\ UNCHANGED <<ingestVars, vector_lock, issueVars, otherVars>>
SpecGemini == Init /\ [][GeminiNext]_vars
\* the same, with the event loop running every step that can be taken: a
\* response or the client's timeout arrives, a sleep ends
SpecGeminiLive == Init /\ [][GeminiNext]_vars /\ WF_vars(GeminiNext)

\* the issue engine: the worker's reconciliation runs step by step on its
\* thread while the API handlers ignore_issue and clear_database run
Reconcile ==
    \/ BeginAnalysis
    \/ \E cands \in SeqsUpTo(Candidates, MaxBatch) : ReconcileStart(cands)
    \/ ReconcileCheck
    \/ ReconcileIds
    \/ ReconcileInsert
    \/ ReconcileTruncate
    \/ ReconcileSave
IssuesNext ==
    \/ /\ Reconcile \/ (\E id \in Titles : ignore_issue(id))
       /\ UNCHANGED <<ingestVars, geminiVars, otherVars>>
    \/ clear_database /\ UNCHANGED <<geminiVars, otherVars>>
SpecIssues == InitOneKey /\ [][IssuesNext]_vars

\* ingestion by the background worker while the API handler clear_database
\* can run
ClearNext ==
    \/ /\ Environment \/ Cycle("worker")
       /\ UNCHANGED <<vector_lock, geminiVars, issueVars, otherVars>>
    \/ clear_database /\ UNCHANGED <<geminiVars, otherVars>>
SpecClear == InitOneKey /\ [][ClearNext]_vars

\* add_to_vector_db called with any batch of parsed records, then the rest of
\* the cycle
LogBatches == UNION {[1..n -> Digests] : n \in 1..log_batch_size}
AddCall(p, log_entries) ==
    /\ pc[p] = "idle"
    /\ logs_to_process' = [logs_to_process EXCEPT ![p] = log_entries]
    /\ pc' = [pc EXCEPT ![p] = "add_check"]
    /\ UNCHANGED <<logFile, posFile, vector_db, metadata_db, diskIndex, diskMeta,
                   app_status, current_position, rotation_detected, unique_logs,
                   faiss_ids, embeddings, crashes>>
AddNext ==
    /\ \/ \E log_entries \in LogBatches : AddCall("worker", log_entries)
       \/ AddCheck("worker")
       \/ AddEmbed("worker")
       \/ AddInsert("worker")
       \/ SaveIndex("worker")
       \/ SaveMeta("worker")
       \/ Analyze("worker")
       \/ EndCycle("worker")
    /\ UNCHANGED <<vector_lock, geminiVars, issueVars, otherVars>>
SpecAdd == InitOneKey /\ [][AddNext]_vars

\* completion calls with any model on any credential, in both programs
QuotaNext ==
    /\ \E api_key \in KeyIdx, model_name \in ModelNames :
            CallBuckets(api_key, model_name) \/ GenerateBuckets(api_key, model_name)
    /\ UNCHANGED <<ingestVars, vector_lock, geminiVars, issueVars, workerVars,
                   bucketVars, wazuhVars, last_search, generateVars, analyzeVars>>
SpecQuota == Init /\ [][QuotaNext]_vars

\* the two readers of the log source: process_logs of Threat_Hunter.py in
\* the worker's cycle, and the packaged ThreatHunterCore.process_logs
ReadNext ==
    \/ /\ Environment \/ (deployed = "Threat_Hunter.py" /\ Cycle("worker"))
       /\ UNCHANGED <<vector_lock, geminiVars, issueVars, otherVars>>
    \/ CoreProcessLogs
InitRead ==
    /\ IngestInit /\ GeminiInitWith(1) /\ IssuesInit /\ WorkerInit /\ BucketInit
    /\ MoreInit
    /\ \E program \in Programs : WazuhInitWith(program)
SpecRead == InitRead /\ [][ReadNext]_vars

\* invocations of call_gemini_api in flight at the same time, with two
\* credentials configured
ConcurrentNext ==
    /\ \E c \in Calls :
        \/ \E total \in Totals : CallStart(c, total)
        \/ requests[c] < MaxSends /\ CallSend(c)
        \/ \E outcome \in Outcomes : CallResponse(c, outcome)
        \/ CallCheck(c)
        \/ CallRotate(c)
        \/ CallReturn(c)
    /\ UNCHANGED <<ingestVars, vector_lock, issueVars, otherVars>>
InitConcurrent == IngestInit /\ GeminiInitWith(2) /\ IssuesInit /\ OtherInit

SpecConcurrent == InitConcurrent /\ [][ConcurrentNext]_vars

\* generate calls of the package, one after another
GenerateNext ==
    \E model_name \in ModelNames, outcome \in {"ok", "429", "error"} :
        Generate(model_name, outcome) /\ UNCHANGED analyzeVars
SpecGenerate == Init /\ [][GenerateNext]_vars

\* the package deployed, the credentials as configured
InitAnalyze ==
    /\ IngestInit /\ GeminiInit /\ IssuesInit /\ WorkerInit /\ BucketInit
    /\ WazuhInitWith("threat_hunter") /\ MoreInit

SpecAnalyze == InitAnalyze /\ [][AnalyzeNext]_vars

\* searches between inserts, on the store of either program
SearchNext ==
    \/ deployed = "Threat_Hunter.py" /\ AddNext
    \/ /\ deployed = "threat_hunter" /\ Environment
       /\ UNCHANGED <<vector_lock, geminiVars, issueVars, otherVars>>
    \/ CoreProcessLogs
    \/ \E q \in Queries, k \in 1..MaxK, encode_fails \in BOOLEAN :
            \/ deployed = "Threat_Hunter.py" /\ search_vector_db(q, k, encode_fails)
            \/ CoreSearch(q, k, encode_fails)
SpecSearch == InitRead /\ [][SearchNext]_vars

\* the cycle orchestrators: the worker thread of Threat_Hunter.py, the
\* settings handler and the periodic task of main.py
WorkerNext ==
    /\ \/ \E raises \in BOOLEAN, call \in CallResults : WorkerRunCycle(raises, call)
       \/ WorkerHandleError
       \/ WorkerSleep
       \/ \E v \in Intervals : update_settings(v)
       \/ \E raises \in BOOLEAN : PeriodicCycle(raises)
       \/ PeriodicSleep
    /\ UNCHANGED <<ingestVars, vector_lock, geminiVars, issueVars, bucketVars,
                 wazuhVars, moreVars>>
SpecWorker == InitOneKey /\ [][WorkerNext]_vars

\* one TokenBucket used by several coroutines while time passes
BucketNext ==
    /\ \/ Tick
       \/ \E q \in Callers :
            \/ \E n \in Amounts, waiting \in BOOLEAN : ConsumeCall(q, n, waiting)
            \/ ConsumeAcquire(q)
            \/ ConsumeRefill(q)
            \/ ConsumeCheck(q)
            \/ ConsumeDecrement(q)
            \/ ConsumeRelease(q)
            \/ WaitRetry(q)
    /\ UNCHANGED <<ingestVars, vector_lock, geminiVars, issueVars, workerVars,
                 wazuhVars, moreVars>>
SpecBucket == InitOneKey /\ [][BucketNext]_vars

\* ------------------------------------------------------------- claims
InCycle(p) == pc[p] \notin {"idle", "down"}

\* C1: the offset is persisted only after the records read in the cycle are
\* in the vector store, so a cycle that has persisted its offset never ends,
\* by completing or by a crash, with a record it read missing from the store
\* (the store being non-empty, the next cycle resumes at the persisted offset
\* and does not scan backwards).
C1_OffsetAfterInsert ==
    [][(/\ pc["worker"] \notin {"idle", "down", "process_logs", "set_position"}
        /\ pc'["worker"] \in {"idle", "down"}
        /\ posFile = current_position["worker"]
        /\ ntotal(vector_db) > 0)
        => \A i \in 1..Len(logs_to_process["worker"]) :
                logs_to_process["worker"][i] \in DOMAIN metadata_db]_vars

\* C2: in a cycle that detected a rotation and re-reads the source from offset
\* 0, no digest already in the metadata is admitted again (it keeps its
\* metadata entry and its number of index entries), and when every record read
\* is already stored the stored digests and the number of index entries do
\* not change.
C2_RereadIdempotent ==
    [][rotation_detected["worker"]
        => /\ \A d \in DOMAIN metadata_db :
                /\ d \in DOMAIN metadata_db'
                /\ EntriesOf(vector_db', d) = EntriesOf(vector_db, d)
           /\ Range(logs_to_process["worker"]) \subseteq DOMAIN metadata_db
                => /\ DOMAIN metadata_db' = DOMAIN metadata_db
                   /\ ntotal(vector_db') = ntotal(vector_db)]_vars
\* a re-read after a rotation went through the dedup check and every record
\* it had read was dropped as already stored
C2_Witness ==
    /\ rotation_detected["worker"]
    /\ pc["worker"] = "save_index"
    /\ logs_to_process["worker"] # <<>>
    /\ unique_logs["worker"] = <<>>
    /\ Range(logs_to_process["worker"]) \subseteq DOMAIN metadata_db

\* C3: after every call of add_to_vector_db, successful or failed part-way,
\* each stored digest has exactly one vector entry, carrying the handle the
\* metadata records for it, and the handles of the index are the handles of
\* the metadata.
C3_StoreConsistent ==
    /\ \A d \in DOMAIN metadata_db :
        /\ EntriesOf(vector_db, d) = 1
        /\ \E i \in 1..Len(vector_db) :
                vector_db[i] = [id |-> metadata_db[d], emb |-> d]
    /\ \A i \in 1..Len(vector_db) : vector_db[i].emb \in DOMAIN metadata_db
    /\ IndexHandles(vector_db) = MetaHandles(metadata_db)

\* C4: whenever the process starts after a crash, the index it loads has the
\* handle set of the metadata it loads.
C4_ReloadConsistent ==
    [][(pc["worker"] = "down" /\ pc'["worker"] = "idle")
        => IndexHandles(vector_db') = MetaHandles(metadata_db')]_vars

\* C5: the active credential changes only in the step that follows a 429
\* response by which the active credential's count of 429 responses since its
\* last success or rotation reached 3 or more; a timeout, a 5xx, a malformed
\* answer or an oversized prompt never changes it.
C5_RotationOnlyOnSustained429 ==
    [][current_api_key_index' # current_api_key_index
        => \E c \in Calls :
            /\ call_pc[c] = "sleep" /\ call_pc'[c] = "loop"
            /\ last_outcome[c] = "429"
            /\ current_key[c] = current_api_key_index
            /\ since_ok[current_api_key_index] >= 3]_vars
\* a rotation has just happened in an invocation that also saw a timeout
C5_Witness ==
    \E c \in Calls :
        /\ call_pc[c] = "loop"
        /\ last_outcome[c] = "429"
        /\ current_key[c] # current_api_key_index
        /\ retry_count[c] >= 3

\* C6: with two or more credentials, no request is in flight on a credential
\* whose last three responses in a row were 429 (the request after the third
\* goes to another credential); and when the first 429 of a credential (since
\* its last success or rotation) is followed by a success, that success is on
\* the same credential, which is still the active one, and its failure counter
\* is 0.
C6_NextRequestElsewhere ==
    (num_keys >= 2 /\ \E c \in Calls : call_pc[c] = "await_response")
        => run429 < 3
C6_SingleThrottleKeepsKey ==
    \A c \in Calls :
        (call_pc[c] = "await_response" /\ call_pc'[c] = "done"
            /\ single429[c] # NoKey)
        => /\ current_key[c] = single429[c]
           /\ current_api_key_index' = single429[c]
           /\ consecutive_failures'[single429[c]] = 0
C7_IgnoredNeverActive ==
    \A i \in 1..Len(issues) : issues[i].id \notin ignored_issue_ids

\* C8: no two issues of the active set have the same signature.
C8_UniqueSignatures ==
    \A i, j \in 1..Len(issues) :
        i # j => generate_issue_signature(issues[i]) # generate_issue_signature(issues[j])
\* a reconciliation whose batch held the same candidate twice has run: the
\* candidate is in the active set once
C8_Witness ==
    /\ rpc = "save"
    /\ Len(last_batch) = 2
    /\ last_batch[1] = last_batch[2]
    /\ Cardinality({i \in 1..Len(issues) : issues[i] = MakeIssue(last_batch[1])}) = 1

\* C9: no issue of the active set has the signature of an issue that was
\* ignored.
C9_IgnoredSignatureRejected ==
    \A i \in 1..Len(issues) :
        generate_issue_signature(issues[i]) \notin ignored_signatures

\* C10: a manually triggered cycle and a cycle of the background worker are
\* never in progress at the same time.
C10_NoOverlappingCycles == ~(InCycle("worker") /\ InCycle("manual"))

\* C11: whatever a step of a cycle raises and whatever integer the processing
\* interval holds, the periodic worker (background_worker, the periodic task
\* of main.py) never leaves its loop.
C11_WorkerNeverExits == w_pc # "exited" /\ periodic_pc # "dead"

\* C12: every invocation of call_gemini_api that has entered its retry loop
\* returns or fails, whatever the responses are and for 1 to MaxKeys
\* credentials.
C12_CallTerminates ==
    \A c \in Calls : (call_pc[c] = "loop") ~> (call_pc[c] \in {"done", "failed"})
\* with a single credential an invocation that saw only 429 responses has
\* failed with the retry budget exhausted
C12_Witness ==
    \E c \in Calls :
        /\ num_keys = 1
        /\ call_pc[c] = "failed"
        /\ last_outcome[c] = "max_retries"
        /\ requests[c] > max_retries

\* C13: a timeout and a 5xx response alike are followed by a backoff sleep and
\* a retry, as long as the retry budget is not exhausted.
C13_TransientErrorsRetried ==
    [][\A c \in Calls :
        (call_pc[c] = "await_response" /\ last_outcome'[c] \in {"timeout", "5xx"})
            => call_pc'[c] = "sleep"]_vars

\* C14: a call whose token total exceeds the ceiling fails with the client
\* error before any request is posted, and entering it changes no bucket, no
\* failure counter, not the active credential and posts nothing.
C14_NoRequestWhenTooLarge ==
    \A c \in Calls :
        total_expected[c] > TokenCeiling
            => /\ call_pc[c] = "failed"
               /\ last_outcome[c] = "too_large"
               /\ requests[c] = 0
C14_RefusalChangesNothing ==
    \A c \in Calls :
        (call_pc[c] = "idle" /\ total_expected'[c] > TokenCeiling)
            => UNCHANGED <<bucket_keys, consecutive_failures,
                           current_api_key_index, since_ok, run_key, run429>>
C14_TooLargeRefused ==
    [] C14_NoRequestWhenTooLarge /\ [][C14_RefusalChangesNothing]_vars
\* a call with a token total of ceiling + 1 has been refused while the active
\* credential has a bucket and a non-zero failure counter
C14_Witness ==
    \E c \in Calls :
        /\ total_expected[c] = TokenCeiling + 1
        /\ call_pc[c] = "failed"
        /\ bucket_keys # {}
        /\ consecutive_failures[current_api_key_index] > 0

\* C15: a consume(capacity) whose clock reading is more than a minute after
\* the last successful consume succeeds at once, and a consume(capacity + 1)
\* fails in every state.
C15_RefillAndCap ==
    [][\A q \in Callers :
        (b_pc[q] = "check" /\ b_pc'[q] # "check")
            => /\ (b_n[q] = BucketCapacity /\ b_now[q] - last_consumed > Minute)
                    => b_pc'[q] = "decrement"
               /\ b_n[q] = BucketCapacity + 1
                    => (b_pc'[q] = "release" /\ b_result'[q] = "false")]_vars
\* the bucket was consumed from, more than a minute has passed and a
\* consume(capacity) has passed the comparison
C15_Witness ==
    \E q \in Callers :
        /\ b_pc[q] = "decrement"
        /\ b_n[q] = BucketCapacity
        /\ last_consumed > 0
        /\ b_now[q] - last_consumed > Minute

\* C16: under every interleaving of consume and wait_for_tokens calls on one
\* bucket the token count stays within 0..capacity, a successful consume
\* leaves the count it compared minus n, and a failed consume returns with the
\* count it compared.
C16_TokensInRange == bk_tokens \in 0..BucketCapacity
C16_ExactDecrement ==
    \A q \in Callers :
        /\ (b_pc[q] = "decrement" /\ b_pc'[q] = "release")
                => bk_tokens' = b_seen[q] - b_n[q]
        /\ (b_pc[q] = "release" /\ b_pc'[q] # "release" /\ b_result[q] = "false")
                => bk_tokens = b_seen[q]
C16_ConsumeAtomic == [] C16_TokensInRange /\ [][C16_ExactDecrement]_vars
\* two coroutines ask for tokens that suffice for one of them: one is about to
\* subtract while the other waits for the lock
C16_Witness ==
    \E q, r \in Callers :
        /\ q # r
        /\ b_pc[q] = "decrement" /\ b_pc[r] = "acquire"
        /\ b_n[q] > 0 /\ b_n[r] > 0
        /\ bk_tokens < b_n[q] + b_n[r]

C18_RotationReadsFromStart ==
    [][(pc["worker"] = "process_logs" /\ pc'["worker"] = "set_position"
            /\ get_log_position > Len(logFile))
        => /\ logs_to_process'["worker"] = ReadBatch(logFile, 0, 0, <<>>)[1]
           /\ current_position'["worker"] = ReadBatch(logFile, 0, 0, <<>>)[2]]_vars

\* C19: a read returns exactly the well-formed lines of the range it covers,
\* in file order, whatever malformed lines lie between them, it stops only at
\* the end of the source or at the batch limit, never at a malformed line, and
\* the records it returns are what the vector store receives.
C19_MalformedSkipped ==
    [][LET WellFormed(l) == l # Malformed
           Covered(from, to) ==
               SelectSeq(SubSeq(logFile, from + 1, to), WellFormed)
       IN /\ (pc["worker"] = "process_logs" /\ pc'["worker"] = "set_position")
                => /\ logs_to_process'["worker"] =
                     Covered(IF ntotal(vector_db) = 0
                             THEN Max(0, Len(logFile) - initial_scan_count)
                             ELSE StartPosition(get_log_position, Len(logFile)),
                             current_position'["worker"])
                   /\ \/ current_position'["worker"] = Len(logFile)
                      \/ Len(logs_to_process'["worker"]) = log_batch_size
          /\ (pc["worker"] = "set_position" /\ pc'["worker"] = "add_check")
                => logs_to_process'["worker"] = logs_to_process["worker"]
          /\ (wazuhVars' # wazuhVars)
                => /\ wz_logs' = Covered(wz_pos, wz_pos')
                   /\ wz_pos' = Max(wz_pos, Min(Len(logFile), wz_pos + log_batch_size))
                   /\ core_metadata' =
                        AddDocuments(wz_logs', core_metadata, core_index, <<>>)[1]]_vars
\* an incremental read has skipped a malformed line and returned the record
\* that follows it
C19_Witness ==
    /\ pc["worker"] = "set_position"
    /\ ntotal(vector_db) > 0
    /\ ~rotation_detected["worker"]
    /\ posFile # NoPos
    /\ current_position["worker"] <= Len(logFile)
    /\ \E i \in 1..Len(logFile) :
          /\ posFile < i /\ i < current_position["worker"]
          /\ logFile[i] = Malformed
          /\ logFile[current_position["worker"]] # Malformed
    /\ Len(logs_to_process["worker"]) >= 1

\* C20: a record two overlapping add_to_vector_db executions both received is
\* in the index at most once (the check and the insert being one critical
\* section).
C20_InsertedOnce ==
    \A d \in Digests : EntriesOf(vector_db, d) <= 1

\* C21: the handles of the vector entries are pairwise distinct in every
\* reachable state (a colliding draw being replaced by a new one).
C21_HandlesDistinct ==
    \A i, j \in 1..Len(vector_db) :
        i # j => vector_db[i].id # vector_db[j].id

\* C22: when embedding failed for some chunks of a batch and succeeded for
\* others, the insert puts every record of the successful chunks into the
\* index and the metadata.
C22_SuccessfulChunksInserted ==
    [][(pc["worker"] = "insert" /\ pc'["worker"] = "save_index")
        => \A d \in Range(embeddings["worker"]) :
              /\ d \in DOMAIN metadata_db'
              /\ EntriesOf(vector_db', d) >= 1]_vars

\* C23: the batch a cycle hands to the analysis stage holds only records that
\* were novel to the vector store, so a cycle that read only stored records
\* does not reach the analysis stage.
C23_OnlyNovelAnalysed ==
    pc["worker"] = "analyze"
        => /\ unique_logs["worker"] # <<>>
           /\ Range(logs_to_process["worker"]) \subseteq Range(unique_logs["worker"])

\* C24: a cycle whose completion call failed unrecoverably in the analysis
\* stage ends with the status 'Error: ...'.
C24_FailedCallMarksError ==
    (w_pc = "timing" /\ w_call = "failed") => w_status = "Error"

\* C25: the ids of the issues in the active set are pairwise distinct.
C25_IssueIdsDistinct ==
    \A i, j \in 1..Len(issues) : i # j => issues[i].id # issues[j].id

\* C26: the active index is always within [0, N); it changes only by a
\* rotation, a rotation moves it to (old index + 1) mod N and leaves the
\* failure counter of the credential that was active at 0.
C26_IndexInRange == current_api_key_index \in 0..(num_keys - 1)
C26_RotationStep ==
    /\ current_api_key_index' # current_api_key_index
        => \E c \in Calls : call_pc[c] = "sleep" /\ call_pc'[c] = "loop"
                              /\ retry_count'[c] = retry_count[c]
    /\ \A c \in Calls :
        (call_pc[c] = "sleep" /\ call_pc'[c] = "loop"
            /\ retry_count'[c] = retry_count[c])
        => /\ current_api_key_index' = (current_api_key_index + 1) % num_keys
           /\ consecutive_failures'[current_api_key_index] = 0
C26_RoundRobin == [] C26_IndexInRange /\ [][C26_RotationStep]_vars
\* with three credentials the rotation has gone all the way round
C26_Witness ==
    /\ num_keys = 3
    /\ current_api_key_index = 0
    /\ bucket_keys = {0, 1, 2}
    /\ \E c \in Calls : call_pc[c] = "loop" /\ last_outcome[c] = "429"
                          /\ current_key[c] = 2

\* C27: a run that finds a persisted offset (and no rotation) resumes at that
\* offset: it returns the records the incremental read yields from there; the
\* backward scan is left to the run that finds no offset, and hands on at most
\* initial_scan_count records.
C27_ResumesAtPersistedOffset ==
    [][(pc["worker"] = "process_logs" /\ pc'["worker"] = "set_position")
        => IF posFile # NoPos /\ posFile <= Len(logFile)
           THEN /\ logs_to_process'["worker"] =
                        ReadBatch(logFile, posFile, 0, <<>>)[1]
                /\ current_position'["worker"] =
                        ReadBatch(logFile, posFile, 0, <<>>)[2]
           ELSE posFile = NoPos /\ ntotal(vector_db) = 0
                    => Len(logs_to_process'["worker"]) <= initial_scan_count]_vars

\* C28: the buckets a completion call waits on have the capacities MODEL_QUOTA
\* gives for the family of that call's model.
C28_BucketsMatchFamily ==
    consulted # NoBucket => consulted.caps = MODEL_QUOTA[consulted.family]

C30_RotatesOnlyOnThird429 ==
    [][gen_current' # gen_current
        => gen_last' = "429" /\ gen_failures[gen_current] = 2]_vars

\* C31: a read_new_logs that finds the persisted offset beyond the end of the
\* log file starts at offset 0 and returns the records of the file.
C31_TruncationTolerated ==
    [][(wz_logs' # wz_logs /\ wz_pos > Len(logFile))
        => /\ wz_logs' = WazuhReadBatch(logFile, 0, 0, <<>>)[1]
           /\ wz_pos' = WazuhReadBatch(logFile, 0, 0, <<>>)[2]]_vars

\* C32: no handle overflows the signed 64-bit id type when it is assigned,
\* every handle in either index is within the range of that type, and no
\* metadata entry is left without its index entry.
C32_HandlesFitInt64 ==
    /\ core_error # "OverflowError"
    /\ \A i \in 1..Len(core_index) : HexPrefix(core_index[i]) < Int64Limit
    /\ \A i \in 1..Len(vector_db) : vector_db[i].id \in Handles
    /\ core_metadata = Range(core_index)

\* C33: clear_database terminates and releases the vector lock: outside of a
\* running call the lock is free, so inserts, searches and saves can proceed.
C33_ClearReleasesLock == vector_lock = "free"

\* C34: one invocation of call_gemini_api sends at most max_retries requests.
C34_RequestsWithinBudget == \A c \in Calls : requests[c] <= max_retries

\* C35: with invocations in flight at the same time, every rotation leaves a
\* credential whose failure counter had reached 3.
C35_RotationLeavesThrottledKey ==
    [][\A c \in Calls :
        (num_keys > 1 /\ call_pc[c] = "rotate" /\ call_pc'[c] = "loop")
            => consecutive_failures[current_api_key_index] >= 3]_vars

\* C38: the waits of Gemini.generate on its buckets terminate for every
\* amount requested: a waiting call is refused only while the bucket holds
\* less than its capacity, so that refilling the bucket ends the wait.
C38_WaitsTerminate ==
    \A q \in Callers :
        (b_wait[q] /\ b_pc[q] = "release" /\ b_result[q] = "false")
            => b_seen[q] < BucketCapacity

\* C36: after every analyze call that accepts its issue the active list of
\* ThreatHunterCore holds at most max_issues issues, for every setting >= 0,
\* and what is kept is the newest part of the list, the new issue included.
C36_AtMostMaxIssues ==
    [][((\E outcome \in {"ok", "429", "error"} : CoreAnalyze(outcome))
            /\ NextIssueId \notin core_ignored
            /\ \A i \in 1..Len(core_issues) : core_issues[i].id # NextIssueId)
        => /\ Len(core_issues') <= core_max_issues
           /\ \E k \in 1..(Len(core_issues) + 2) :
                core_issues' =
                    SubSeq(Append(core_issues, core_issues'[Len(core_issues')]),
                           k, Len(core_issues) + 1)]_vars

\* C37: the id analyze generates next is neither the id of an active issue
\* nor in the ignore set, whatever calls came before.
C37_NextIdIsFresh ==
    /\ NextIssueId \notin core_ignored
    /\ \A i \in 1..Len(core_issues) : core_issues[i].id # NextIssueId

\* C39: no issue of the active list comes from a failed completion call,
\* whose text is the empty string.
C39_FailedAnalysisAddsNothing ==
    \A i \in 1..Len(core_issues) : core_issues[i].summary # ""

====
